---- MODULE Spec2Model ----
(***************************************************************************)
(* Model of scripts/fix_capitalization.py (sentence-case normalisation of  *)
(* Russian strings in JSON trees) and scripts/sync_translations.py (merge  *)
(* of an artifact tree into a resource tree).                              *)
(*                                                                         *)
(* A string is a sequence of Unicode code points (Python's str indexing    *)
(* unit).  Python indices are 0-based; Char(text, j) reads text[j].        *)
(* A JSON value is a tagged record [t, v]: t is one of "str", "num",       *)
(* "dict", "list".                                                         *)
(***************************************************************************)
EXTENDS Integers, Sequences, FiniteSets, TLC

VARIABLES
    text,               \* argument of fix_sentence_case
    i,                  \* scan index (0-based)
    result,             \* output list built so far
    at_sentence_start,  \* the sentence-start flag
    pc,                 \* "call", "loop" or "done"
    ret,                \* value returned by fix_sentence_case
    start_at,           \* history: flag value when each position was consumed
    top,                \* history: highest index read from text in the last step
    data,               \* JSON file content handled by fix_capitalization.main
    orig_data,          \* history: the content before the first run
    fix_runs,           \* number of runs of fix_capitalization over the file
    artifact,           \* JSON tree under artifacts/new
    resource,           \* JSON tree under resourcepacks (or Absent)
    prev_resource,      \* history: resource before the last sync
    runs                \* number of runs of sync_translations over the file

vars == <<text, i, result, at_sentence_start, pc, ret, start_at, top,
          data, orig_data, fix_runs, artifact, resource, prev_resource, runs>>

scanVars == <<text, i, result, at_sentence_start, pc, ret, start_at, top>>
fixVars == <<data, orig_data, fix_runs>>
mergeVars == <<artifact, resource, prev_resource, runs>>

(***************************************************************************)
(* Bounds                                                                  *)
(***************************************************************************)
MaxLen == 4
MaxListLen == 2
MaxRuns == 2

(***************************************************************************)
(* Characters                                                              *)
(***************************************************************************)
SECTION_SIGN == 167
NEWLINE == 10
NoChar == -1

RUSSIAN_UPPER == (1040 .. 1071) \cup {1025}
RUSSIAN_LOWER == (1072 .. 1103) \cup {1105}
RUSSIAN_ALL == RUSSIAN_UPPER \cup RUSSIAN_LOWER

\* the characters of the string literal '.!?'
SENTENCE_END == {46, 33, 63}
\* the characters of the string literal ' \t'
BLANK == {32, 9}
\* the characters of the string literal ' \t\n'
WORD_END == {32, 9, 10}
\* the characters of the string literal ' \t.!?'
ABBREV_BEFORE == {32, 9, 46, 33, 63}

\* str.upper() / str.lower() on one character of RUSSIAN_ALL
upper(c) ==
    IF c \in 1072 .. 1103 THEN c - 32
    ELSE IF c = 1105 THEN 1025
    ELSE c

lower(c) ==
    IF c \in 1040 .. 1071 THEN c + 32
    ELSE IF c = 1025 THEN 1105
    ELSE c

\* str.isalpha() on one character: the code points of the Unicode letter
\* categories (Lu, Ll, Lt, Lm, Lo), as inclusive ranges <<first, last>> in
\* ascending order
AlphaRanges ==
    <<<<65, 90>>, <<97, 122>>, <<170, 170>>, <<181, 181>>, <<186, 186>>,
     <<192, 214>>, <<216, 246>>, <<248, 705>>, <<710, 721>>, <<736, 740>>,
     <<748, 748>>, <<750, 750>>, <<880, 884>>, <<886, 887>>, <<890, 893>>,
     <<895, 895>>, <<902, 902>>, <<904, 906>>, <<908, 908>>, <<910, 929>>,
     <<931, 1013>>, <<1015, 1153>>, <<1162, 1327>>, <<1329, 1366>>, <<1369, 1369>>,
     <<1376, 1416>>, <<1488, 1514>>, <<1519, 1522>>, <<1568, 1610>>, <<1646, 1647>>,
     <<1649, 1747>>, <<1749, 1749>>, <<1765, 1766>>, <<1774, 1775>>, <<1786, 1788>>,
     <<1791, 1791>>, <<1808, 1808>>, <<1810, 1839>>, <<1869, 1957>>, <<1969, 1969>>,
     <<1994, 2026>>, <<2036, 2037>>, <<2042, 2042>>, <<2048, 2069>>, <<2074, 2074>>,
     <<2084, 2084>>, <<2088, 2088>>, <<2112, 2136>>, <<2144, 2154>>, <<2160, 2183>>,
     <<2185, 2190>>, <<2208, 2249>>, <<2308, 2361>>, <<2365, 2365>>, <<2384, 2384>>,
     <<2392, 2401>>, <<2417, 2432>>, <<2437, 2444>>, <<2447, 2448>>, <<2451, 2472>>,
     <<2474, 2480>>, <<2482, 2482>>, <<2486, 2489>>, <<2493, 2493>>, <<2510, 2510>>,
     <<2524, 2525>>, <<2527, 2529>>, <<2544, 2545>>, <<2556, 2556>>, <<2565, 2570>>,
     <<2575, 2576>>, <<2579, 2600>>, <<2602, 2608>>, <<2610, 2611>>, <<2613, 2614>>,
     <<2616, 2617>>, <<2649, 2652>>, <<2654, 2654>>, <<2674, 2676>>, <<2693, 2701>>,
     <<2703, 2705>>, <<2707, 2728>>, <<2730, 2736>>, <<2738, 2739>>, <<2741, 2745>>,
     <<2749, 2749>>, <<2768, 2768>>, <<2784, 2785>>, <<2809, 2809>>, <<2821, 2828>>,
     <<2831, 2832>>, <<2835, 2856>>, <<2858, 2864>>, <<2866, 2867>>, <<2869, 2873>>,
     <<2877, 2877>>, <<2908, 2909>>, <<2911, 2913>>, <<2929, 2929>>, <<2947, 2947>>,
     <<2949, 2954>>, <<2958, 2960>>, <<2962, 2965>>, <<2969, 2970>>, <<2972, 2972>>,
     <<2974, 2975>>, <<2979, 2980>>, <<2984, 2986>>, <<2990, 3001>>, <<3024, 3024>>,
     <<3077, 3084>>, <<3086, 3088>>, <<3090, 3112>>, <<3114, 3129>>, <<3133, 3133>>,
     <<3160, 3162>>, <<3165, 3165>>, <<3168, 3169>>, <<3200, 3200>>, <<3205, 3212>>,
     <<3214, 3216>>, <<3218, 3240>>, <<3242, 3251>>, <<3253, 3257>>, <<3261, 3261>>,
     <<3293, 3294>>, <<3296, 3297>>, <<3313, 3314>>, <<3332, 3340>>, <<3342, 3344>>,
     <<3346, 3386>>, <<3389, 3389>>, <<3406, 3406>>, <<3412, 3414>>, <<3423, 3425>>,
     <<3450, 3455>>, <<3461, 3478>>, <<3482, 3505>>, <<3507, 3515>>, <<3517, 3517>>,
     <<3520, 3526>>, <<3585, 3632>>, <<3634, 3635>>, <<3648, 3654>>, <<3713, 3714>>,
     <<3716, 3716>>, <<3718, 3722>>, <<3724, 3747>>, <<3749, 3749>>, <<3751, 3760>>,
     <<3762, 3763>>, <<3773, 3773>>, <<3776, 3780>>, <<3782, 3782>>, <<3804, 3807>>,
     <<3840, 3840>>, <<3904, 3911>>, <<3913, 3948>>, <<3976, 3980>>, <<4096, 4138>>,
     <<4159, 4159>>, <<4176, 4181>>, <<4186, 4189>>, <<4193, 4193>>, <<4197, 4198>>,
     <<4206, 4208>>, <<4213, 4225>>, <<4238, 4238>>, <<4256, 4293>>, <<4295, 4295>>,
     <<4301, 4301>>, <<4304, 4346>>, <<4348, 4680>>, <<4682, 4685>>, <<4688, 4694>>,
     <<4696, 4696>>, <<4698, 4701>>, <<4704, 4744>>, <<4746, 4749>>, <<4752, 4784>>,
     <<4786, 4789>>, <<4792, 4798>>, <<4800, 4800>>, <<4802, 4805>>, <<4808, 4822>>,
     <<4824, 4880>>, <<4882, 4885>>, <<4888, 4954>>, <<4992, 5007>>, <<5024, 5109>>,
     <<5112, 5117>>, <<5121, 5740>>, <<5743, 5759>>, <<5761, 5786>>, <<5792, 5866>>,
     <<5873, 5880>>, <<5888, 5905>>, <<5919, 5937>>, <<5952, 5969>>, <<5984, 5996>>,
     <<5998, 6000>>, <<6016, 6067>>, <<6103, 6103>>, <<6108, 6108>>, <<6176, 6264>>,
     <<6272, 6276>>, <<6279, 6312>>, <<6314, 6314>>, <<6320, 6389>>, <<6400, 6430>>,
     <<6480, 6509>>, <<6512, 6516>>, <<6528, 6571>>, <<6576, 6601>>, <<6656, 6678>>,
     <<6688, 6740>>, <<6823, 6823>>, <<6917, 6963>>, <<6981, 6988>>, <<7043, 7072>>,
     <<7086, 7087>>, <<7098, 7141>>, <<7168, 7203>>, <<7245, 7247>>, <<7258, 7293>>,
     <<7296, 7304>>, <<7312, 7354>>, <<7357, 7359>>, <<7401, 7404>>, <<7406, 7411>>,
     <<7413, 7414>>, <<7418, 7418>>, <<7424, 7615>>, <<7680, 7957>>, <<7960, 7965>>,
     <<7968, 8005>>, <<8008, 8013>>, <<8016, 8023>>, <<8025, 8025>>, <<8027, 8027>>,
     <<8029, 8029>>, <<8031, 8061>>, <<8064, 8116>>, <<8118, 8124>>, <<8126, 8126>>,
     <<8130, 8132>>, <<8134, 8140>>, <<8144, 8147>>, <<8150, 8155>>, <<8160, 8172>>,
     <<8178, 8180>>, <<8182, 8188>>, <<8305, 8305>>, <<8319, 8319>>, <<8336, 8348>>,
     <<8450, 8450>>, <<8455, 8455>>, <<8458, 8467>>, <<8469, 8469>>, <<8473, 8477>>,
     <<8484, 8484>>, <<8486, 8486>>, <<8488, 8488>>, <<8490, 8493>>, <<8495, 8505>>,
     <<8508, 8511>>, <<8517, 8521>>, <<8526, 8526>>, <<8579, 8580>>, <<11264, 11492>>,
     <<11499, 11502>>, <<11506, 11507>>, <<11520, 11557>>, <<11559, 11559>>, <<11565, 11565>>,
     <<11568, 11623>>, <<11631, 11631>>, <<11648, 11670>>, <<11680, 11686>>, <<11688, 11694>>,
     <<11696, 11702>>, <<11704, 11710>>, <<11712, 11718>>, <<11720, 11726>>, <<11728, 11734>>,
     <<11736, 11742>>, <<11823, 11823>>, <<12293, 12294>>, <<12337, 12341>>, <<12347, 12348>>,
     <<12353, 12438>>, <<12445, 12447>>, <<12449, 12538>>, <<12540, 12543>>, <<12549, 12591>>,
     <<12593, 12686>>, <<12704, 12735>>, <<12784, 12799>>, <<13312, 19903>>, <<19968, 42124>>,
     <<42192, 42237>>, <<42240, 42508>>, <<42512, 42527>>, <<42538, 42539>>, <<42560, 42606>>,
     <<42623, 42653>>, <<42656, 42725>>, <<42775, 42783>>, <<42786, 42888>>, <<42891, 42954>>,
     <<42960, 42961>>, <<42963, 42963>>, <<42965, 42969>>, <<42994, 43009>>, <<43011, 43013>>,
     <<43015, 43018>>, <<43020, 43042>>, <<43072, 43123>>, <<43138, 43187>>, <<43250, 43255>>,
     <<43259, 43259>>, <<43261, 43262>>, <<43274, 43301>>, <<43312, 43334>>, <<43360, 43388>>,
     <<43396, 43442>>, <<43471, 43471>>, <<43488, 43492>>, <<43494, 43503>>, <<43514, 43518>>,
     <<43520, 43560>>, <<43584, 43586>>, <<43588, 43595>>, <<43616, 43638>>, <<43642, 43642>>,
     <<43646, 43695>>, <<43697, 43697>>, <<43701, 43702>>, <<43705, 43709>>, <<43712, 43712>>,
     <<43714, 43714>>, <<43739, 43741>>, <<43744, 43754>>, <<43762, 43764>>, <<43777, 43782>>,
     <<43785, 43790>>, <<43793, 43798>>, <<43808, 43814>>, <<43816, 43822>>, <<43824, 43866>>,
     <<43868, 43881>>, <<43888, 44002>>, <<44032, 55203>>, <<55216, 55238>>, <<55243, 55291>>,
     <<63744, 64109>>, <<64112, 64217>>, <<64256, 64262>>, <<64275, 64279>>, <<64285, 64285>>,
     <<64287, 64296>>, <<64298, 64310>>, <<64312, 64316>>, <<64318, 64318>>, <<64320, 64321>>,
     <<64323, 64324>>, <<64326, 64433>>, <<64467, 64829>>, <<64848, 64911>>, <<64914, 64967>>,
     <<65008, 65019>>, <<65136, 65140>>, <<65142, 65276>>, <<65313, 65338>>, <<65345, 65370>>,
     <<65382, 65470>>, <<65474, 65479>>, <<65482, 65487>>, <<65490, 65495>>, <<65498, 65500>>,
     <<65536, 65547>>, <<65549, 65574>>, <<65576, 65594>>, <<65596, 65597>>, <<65599, 65613>>,
     <<65616, 65629>>, <<65664, 65786>>, <<66176, 66204>>, <<66208, 66256>>, <<66304, 66335>>,
     <<66349, 66368>>, <<66370, 66377>>, <<66384, 66421>>, <<66432, 66461>>, <<66464, 66499>>,
     <<66504, 66511>>, <<66560, 66717>>, <<66736, 66771>>, <<66776, 66811>>, <<66816, 66855>>,
     <<66864, 66915>>, <<66928, 66938>>, <<66940, 66954>>, <<66956, 66962>>, <<66964, 66965>>,
     <<66967, 66977>>, <<66979, 66993>>, <<66995, 67001>>, <<67003, 67004>>, <<67072, 67382>>,
     <<67392, 67413>>, <<67424, 67431>>, <<67456, 67461>>, <<67463, 67504>>, <<67506, 67514>>,
     <<67584, 67589>>, <<67592, 67592>>, <<67594, 67637>>, <<67639, 67640>>, <<67644, 67644>>,
     <<67647, 67669>>, <<67680, 67702>>, <<67712, 67742>>, <<67808, 67826>>, <<67828, 67829>>,
     <<67840, 67861>>, <<67872, 67897>>, <<67968, 68023>>, <<68030, 68031>>, <<68096, 68096>>,
     <<68112, 68115>>, <<68117, 68119>>, <<68121, 68149>>, <<68192, 68220>>, <<68224, 68252>>,
     <<68288, 68295>>, <<68297, 68324>>, <<68352, 68405>>, <<68416, 68437>>, <<68448, 68466>>,
     <<68480, 68497>>, <<68608, 68680>>, <<68736, 68786>>, <<68800, 68850>>, <<68864, 68899>>,
     <<69248, 69289>>, <<69296, 69297>>, <<69376, 69404>>, <<69415, 69415>>, <<69424, 69445>>,
     <<69488, 69505>>, <<69552, 69572>>, <<69600, 69622>>, <<69635, 69687>>, <<69745, 69746>>,
     <<69749, 69749>>, <<69763, 69807>>, <<69840, 69864>>, <<69891, 69926>>, <<69956, 69956>>,
     <<69959, 69959>>, <<69968, 70002>>, <<70006, 70006>>, <<70019, 70066>>, <<70081, 70084>>,
     <<70106, 70106>>, <<70108, 70108>>, <<70144, 70161>>, <<70163, 70187>>, <<70272, 70278>>,
     <<70280, 70280>>, <<70282, 70285>>, <<70287, 70301>>, <<70303, 70312>>, <<70320, 70366>>,
     <<70405, 70412>>, <<70415, 70416>>, <<70419, 70440>>, <<70442, 70448>>, <<70450, 70451>>,
     <<70453, 70457>>, <<70461, 70461>>, <<70480, 70480>>, <<70493, 70497>>, <<70656, 70708>>,
     <<70727, 70730>>, <<70751, 70753>>, <<70784, 70831>>, <<70852, 70853>>, <<70855, 70855>>,
     <<71040, 71086>>, <<71128, 71131>>, <<71168, 71215>>, <<71236, 71236>>, <<71296, 71338>>,
     <<71352, 71352>>, <<71424, 71450>>, <<71488, 71494>>, <<71680, 71723>>, <<71840, 71903>>,
     <<71935, 71942>>, <<71945, 71945>>, <<71948, 71955>>, <<71957, 71958>>, <<71960, 71983>>,
     <<71999, 71999>>, <<72001, 72001>>, <<72096, 72103>>, <<72106, 72144>>, <<72161, 72161>>,
     <<72163, 72163>>, <<72192, 72192>>, <<72203, 72242>>, <<72250, 72250>>, <<72272, 72272>>,
     <<72284, 72329>>, <<72349, 72349>>, <<72368, 72440>>, <<72704, 72712>>, <<72714, 72750>>,
     <<72768, 72768>>, <<72818, 72847>>, <<72960, 72966>>, <<72968, 72969>>, <<72971, 73008>>,
     <<73030, 73030>>, <<73056, 73061>>, <<73063, 73064>>, <<73066, 73097>>, <<73112, 73112>>,
     <<73440, 73458>>, <<73648, 73648>>, <<73728, 74649>>, <<74880, 75075>>, <<77712, 77808>>,
     <<77824, 78894>>, <<82944, 83526>>, <<92160, 92728>>, <<92736, 92766>>, <<92784, 92862>>,
     <<92880, 92909>>, <<92928, 92975>>, <<92992, 92995>>, <<93027, 93047>>, <<93053, 93071>>,
     <<93760, 93823>>, <<93952, 94026>>, <<94032, 94032>>, <<94099, 94111>>, <<94176, 94177>>,
     <<94179, 94179>>, <<94208, 100343>>, <<100352, 101589>>, <<101632, 101640>>, <<110576, 110579>>,
     <<110581, 110587>>, <<110589, 110590>>, <<110592, 110882>>, <<110928, 110930>>, <<110948, 110951>>,
     <<110960, 111355>>, <<113664, 113770>>, <<113776, 113788>>, <<113792, 113800>>, <<113808, 113817>>,
     <<119808, 119892>>, <<119894, 119964>>, <<119966, 119967>>, <<119970, 119970>>, <<119973, 119974>>,
     <<119977, 119980>>, <<119982, 119993>>, <<119995, 119995>>, <<119997, 120003>>, <<120005, 120069>>,
     <<120071, 120074>>, <<120077, 120084>>, <<120086, 120092>>, <<120094, 120121>>, <<120123, 120126>>,
     <<120128, 120132>>, <<120134, 120134>>, <<120138, 120144>>, <<120146, 120485>>, <<120488, 120512>>,
     <<120514, 120538>>, <<120540, 120570>>, <<120572, 120596>>, <<120598, 120628>>, <<120630, 120654>>,
     <<120656, 120686>>, <<120688, 120712>>, <<120714, 120744>>, <<120746, 120770>>, <<120772, 120779>>,
     <<122624, 122654>>, <<123136, 123180>>, <<123191, 123197>>, <<123214, 123214>>, <<123536, 123565>>,
     <<123584, 123627>>, <<124896, 124902>>, <<124904, 124907>>, <<124909, 124910>>, <<124912, 124926>>,
     <<124928, 125124>>, <<125184, 125251>>, <<125259, 125259>>, <<126464, 126467>>, <<126469, 126495>>,
     <<126497, 126498>>, <<126500, 126500>>, <<126503, 126503>>, <<126505, 126514>>, <<126516, 126519>>,
     <<126521, 126521>>, <<126523, 126523>>, <<126530, 126530>>, <<126535, 126535>>, <<126537, 126537>>,
     <<126539, 126539>>, <<126541, 126543>>, <<126545, 126546>>, <<126548, 126548>>, <<126551, 126551>>,
     <<126553, 126553>>, <<126555, 126555>>, <<126557, 126557>>, <<126559, 126559>>, <<126561, 126562>>,
     <<126564, 126564>>, <<126567, 126570>>, <<126572, 126578>>, <<126580, 126583>>, <<126585, 126588>>,
     <<126590, 126590>>, <<126592, 126601>>, <<126603, 126619>>, <<126625, 126627>>, <<126629, 126633>>,
     <<126635, 126651>>, <<131072, 173791>>, <<173824, 177976>>, <<177984, 178205>>, <<178208, 183969>>,
     <<183984, 191456>>, <<194560, 195101>>, <<196608, 201546>>>>

\* c lies in one of the ranges lo .. hi of AlphaRanges (binary search)
RECURSIVE InAlphaRanges(_, _, _)
InAlphaRanges(c, lo, hi) ==
    IF lo > hi THEN FALSE
    ELSE LET mid == (lo + hi) \div 2
             r == AlphaRanges[mid]
         IN  IF c < r[1] THEN InAlphaRanges(c, lo, mid - 1)
             ELSE IF c > r[2] THEN InAlphaRanges(c, mid + 1, hi)
             ELSE TRUE

isalpha(c) == InAlphaRanges(c, 1, Len(AlphaRanges))

\* text[j] with a 0-based index; NoChar stands for a read outside the string
Char(s, j) == IF j >= 0 /\ j < Len(s) THEN s[j + 1] ELSE NoChar

Max(a, b) == IF a >= b THEN a ELSE b

\* RUSSIAN_RE.search(text)
RussianSearch(s) == \E p \in 1 .. Len(s) : s[p] \in RUSSIAN_ALL

(***************************************************************************)
(* fix_sentence_case: the loop body, one operator per branch.  A scan      *)
(* state is [i, result, at_sentence_start, top].                           *)
(***************************************************************************)
IsFormatPairNoBound(s, j) == Char(s, j) = SECTION_SIGN

IsFormatPair(s, j) == Char(s, j) = SECTION_SIGN /\ j + 1 < Len(s)

FormatPairStepSingle(s, st) ==
    [i |-> st.i + 1,
     result |-> Append(st.result, Char(s, st.i)),
     at_sentence_start |-> st.at_sentence_start,
     top |-> st.i]

FormatPairStep(s, st) ==
    [i |-> st.i + 2,
     result |-> st.result \o <<Char(s, st.i), Char(s, st.i + 1)>>,
     at_sentence_start |-> st.at_sentence_start,
     top |-> st.i + 1]

NewlineStep(s, st) ==
    [i |-> st.i + 1,
     result |-> Append(st.result, Char(s, st.i)),
     at_sentence_start |-> TRUE,
     top |-> st.i]

\* while j < n and text[j] in ' \t': j += 1
RECURSIVE SkipBlanks(_, _)
SkipBlanks(s, j) ==
    IF j < Len(s) /\ Char(s, j) \in BLANK
    THEN SkipBlanks(s, j + 1)
    ELSE [j |-> j, top |-> IF j < Len(s) THEN j ELSE j - 1]

\* lines 69-73, on the output list after the punctuation was appended
IsAbbreviationAnyLetter(res) ==
    LET k == Len(res) - 2
    IN  k >= 0 /\ Char(res, k) \in RUSSIAN_ALL

IsAbbreviation(res) ==
    LET k == Len(res) - 2
    IN  /\ k >= 0
        /\ Char(res, k) \in RUSSIAN_ALL
        /\ (k = 0 \/ Char(res, k - 1) \in ABBREV_BEFORE)

PunctStepAlwaysBoundary(s, st) ==
    [i |-> st.i + 1,
     result |-> Append(st.result, Char(s, st.i)),
     at_sentence_start |-> TRUE,
     top |-> st.i]

PunctStep(s, st) ==
    LET res == Append(st.result, Char(s, st.i))
        i1 == st.i + 1
        la == SkipBlanks(s, i1)
    IN  [i |-> i1,
         result |-> res,
         at_sentence_start |->
            IF la.j > i1
            THEN (IF IsAbbreviation(res) THEN st.at_sentence_start ELSE TRUE)
            ELSE st.at_sentence_start,
         top |-> Max(st.i, la.top)]

WhitespaceStep(s, st) ==
    [i |-> st.i + 1,
     result |-> Append(st.result, Char(s, st.i)),
     at_sentence_start |-> st.at_sentence_start,
     top |-> st.i]

\* lines 96-102: scan the rest of the word for a lowercase Russian letter
WordHasLowerRussianNextOnly(s, j) ==
    [found |-> j < Len(s) /\ Char(s, j) \in RUSSIAN_LOWER,
     top |-> IF j < Len(s) THEN j ELSE j - 1]

RECURSIVE WordHasLowerRussianAcrossBlanks(_, _)
WordHasLowerRussianAcrossBlanks(s, j) ==
    IF j < Len(s) /\ Char(s, j) # NEWLINE
    THEN IF Char(s, j) \in RUSSIAN_LOWER
         THEN [found |-> TRUE, top |-> j]
         ELSE WordHasLowerRussianAcrossBlanks(s, j + 1)
    ELSE [found |-> FALSE, top |-> IF j < Len(s) THEN j ELSE j - 1]

RECURSIVE WordHasLowerRussian(_, _)
WordHasLowerRussian(s, j) ==
    IF j < Len(s) /\ Char(s, j) \notin WORD_END
    THEN IF Char(s, j) \in RUSSIAN_LOWER
         THEN [found |-> TRUE, top |-> j]
         ELSE WordHasLowerRussian(s, j + 1)
    ELSE [found |-> FALSE, top |-> IF j < Len(s) THEN j ELSE j - 1]

RussianStep(s, st) ==
    LET c == Char(s, st.i)
        la == WordHasLowerRussian(s, st.i + 1)
    IN  IF st.at_sentence_start
        THEN [i |-> st.i + 1,
              result |-> Append(st.result, upper(c)),
              at_sentence_start |-> FALSE,
              top |-> st.i]
        ELSE IF c \in RUSSIAN_UPPER
        THEN [i |-> st.i + 1,
              result |-> Append(st.result, IF la.found THEN lower(c) ELSE c),
              at_sentence_start |-> FALSE,
              top |-> Max(st.i, la.top)]
        ELSE [i |-> st.i + 1,
              result |-> Append(st.result, c),
              at_sentence_start |-> FALSE,
              top |-> st.i]

AlphaStepKeepState(s, st) ==
    [i |-> st.i + 1,
     result |-> Append(st.result, Char(s, st.i)),
     at_sentence_start |-> st.at_sentence_start,
     top |-> st.i]

AlphaStep(s, st) ==
    [i |-> st.i + 1,
     result |-> Append(st.result, Char(s, st.i)),
     at_sentence_start |-> FALSE,
     top |-> st.i]

OtherStep(s, st) ==
    [i |-> st.i + 1,
     result |-> Append(st.result, Char(s, st.i)),
     at_sentence_start |-> st.at_sentence_start,
     top |-> st.i]

\* which branch of the loop body handles text[j]; the order is the code's
Branch(s, j) ==
    LET c == Char(s, j)
    IN  IF IsFormatPair(s, j) THEN "format"
        ELSE IF c = NEWLINE THEN "newline"
        ELSE IF c \in SENTENCE_END THEN "punct"
        ELSE IF c \in BLANK THEN "blank"
        ELSE IF c \in RUSSIAN_ALL THEN "russian"
        ELSE IF isalpha(c) THEN "alpha"
        ELSE "other"

LoopBody(s, st) ==
    LET b == Branch(s, st.i)
    IN  IF b = "format" THEN FormatPairStep(s, st)
        ELSE IF b = "newline" THEN NewlineStep(s, st)
        ELSE IF b = "punct" THEN PunctStep(s, st)
        ELSE IF b = "blank" THEN WhitespaceStep(s, st)
        ELSE IF b = "russian" THEN RussianStep(s, st)
        ELSE IF b = "alpha" THEN AlphaStep(s, st)
        ELSE OtherStep(s, st)

ScanStart == [i |-> 0, result |-> <<>>, at_sentence_start |-> TRUE, top |-> -1]

RECURSIVE ScanFrom(_, _)
ScanFrom(s, st) == IF st.i < Len(s) THEN ScanFrom(s, LoopBody(s, st)) ELSE st

fix_sentence_case(s) ==
    IF ~RussianSearch(s) THEN s ELSE ScanFrom(s, ScanStart).result

(***************************************************************************)
(* JSON values                                                             *)
(***************************************************************************)
Str(s) == [t |-> "str", v |-> s]
Num(n) == [t |-> "num", v |-> n]
Dict(f) == [t |-> "dict", v |-> f]
List(q) == [t |-> "list", v |-> q]
Absent == [t |-> "absent", v |-> 0]

Keys(d) == DOMAIN d.v

\* fix_value: strings are fixed, dicts and lists are rebuilt, other leaves kept
RECURSIVE fix_value(_)
fix_value(obj) ==
    IF obj.t = "str" THEN Str(fix_sentence_case(obj.v))
    ELSE IF obj.t = "dict" THEN Dict([k \in Keys(obj) |-> fix_value(obj.v[k])])
    ELSE IF obj.t = "list" THEN List([p \in 1 .. Len(obj.v) |-> fix_value(obj.v[p])])
    ELSE obj

(***************************************************************************)
(* sync_translations.py                                                    *)
(***************************************************************************)
has_russian(s) == RussianSearch(s)

RECURSIVE merge_recursive_keep_stale(_, _)
merge_recursive_keep_stale(a, r) ==
    IF a.t = "dict" /\ r.t = "dict"
    THEN Dict([k \in Keys(a) \cup Keys(r) |->
                 IF k \in Keys(a) /\ k \in Keys(r)
                 THEN merge_recursive_keep_stale(a.v[k], r.v[k])
                 ELSE IF k \in Keys(a) THEN a.v[k] ELSE r.v[k]])
    ELSE IF a.t = "list" /\ r.t = "list"
    THEN List([p \in 1 .. Max(Len(a.v), Len(r.v)) |->
                 IF p <= Len(a.v) /\ p <= Len(r.v)
                 THEN merge_recursive_keep_stale(a.v[p], r.v[p])
                 ELSE IF p <= Len(a.v) THEN a.v[p] ELSE r.v[p]])
    ELSE IF a.t = "str"
    THEN IF has_russian(a.v) THEN a
         ELSE IF r.t = "str" THEN r
         ELSE a
    ELSE a

RECURSIVE merge_recursive_artifact_wins(_, _)
merge_recursive_artifact_wins(a, r) ==
    IF a.t = "dict" /\ r.t = "dict"
    THEN Dict([k \in Keys(a) |->
                 IF k \in Keys(r)
                 THEN merge_recursive_artifact_wins(a.v[k], r.v[k])
                 ELSE a.v[k]])
    ELSE IF a.t = "list" /\ r.t = "list"
    THEN List([p \in 1 .. Len(a.v) |->
                 IF p <= Len(r.v)
                 THEN merge_recursive_artifact_wins(a.v[p], r.v[p])
                 ELSE a.v[p]])
    ELSE a

RECURSIVE merge_recursive_whole_artifact(_, _)
merge_recursive_whole_artifact(a, r) ==
    IF a.t = "dict" /\ r.t = "dict"
    THEN Dict([k \in Keys(a) |->
                 IF k \in Keys(r)
                 THEN merge_recursive_whole_artifact(a, r.v[k])
                 ELSE a.v[k]])
    ELSE IF a.t = "list" /\ r.t = "list"
    THEN List([p \in 1 .. Len(a.v) |->
                 IF p <= Len(r.v)
                 THEN merge_recursive_whole_artifact(a.v[p], r.v[p])
                 ELSE a.v[p]])
    ELSE IF a.t = "str"
    THEN IF has_russian(a.v) THEN a
         ELSE IF r.t = "str" THEN r
         ELSE a
    ELSE a

\* the list loop runs over range(max(len(artifact), len(resource))) and
\* appends only for the indices the artifact has
RECURSIVE merge_recursive(_, _)
merge_recursive(a, r) ==
    IF a.t = "dict" /\ r.t = "dict"
    THEN Dict([k \in Keys(a) |->
                 IF k \in Keys(r)
                 THEN merge_recursive(a.v[k], r.v[k])
                 ELSE a.v[k]])
    ELSE IF a.t = "list" /\ r.t = "list"
    THEN List([p \in {q \in 1 .. Max(Len(a.v), Len(r.v)) : q <= Len(a.v)} |->
                 IF p <= Len(r.v)
                 THEN merge_recursive(a.v[p], r.v[p])
                 ELSE a.v[p]])
    ELSE IF a.t = "str"
    THEN IF has_russian(a.v) THEN a
         ELSE IF r.t = "str" THEN r
         ELSE a
    ELSE a

(***************************************************************************)
(* Inputs                                                                  *)
(***************************************************************************)
\* Russian A (1040), a (1072), io (1105), section sign, newline, '.', ' ',
\* tab, Latin 'a', the Ukrainian letter ghe with upturn (1168), '('
Sigma == {1040, 1072, 1105, 167, 10, 46, 32, 9, 97, 1168, 40}

\* "Т. е. Пример."
TextAbbrev == <<1058, 46, 32, 1077, 46, 32, 1055, 1088, 1080, 1084, 1077, 1088, 46>>
\* "Т. е. пример."
TextAbbrevFixed == <<1058, 46, 32, 1077, 46, 32, 1087, 1088, 1080, 1084, 1077, 1088, 46>>
\* "привет. мир" and "Привет. Мир"
TextPrivet == <<1087, 1088, 1080, 1074, 1077, 1090, 46, 32, 1084, 1080, 1088>>
TextPrivetFixed == <<1055, 1088, 1080, 1074, 1077, 1090, 46, 32, 1052, 1080, 1088>>
\* "МЭ готов"
TextAllCaps == <<1052, 1069, 32, 1075, 1086, 1090, 1086, 1074>>
\* "Изготовь Зарядник" and "Изготовь зарядник"
TextTitle == <<1048, 1079, 1075, 1086, 1090, 1086, 1074, 1100, 32, 1047, 1072, 1088, 1103, 1076, 1085, 1080, 1082>>
TextTitleFixed == <<1048, 1079, 1075, 1086, 1090, 1086, 1074, 1100, 32, 1079, 1072, 1088, 1103, 1076, 1085, 1080, 1082>>

Examples == {TextAbbrev, TextPrivet, TextAllCaps, TextTitle}

\* text is one of the strings over Sigma of at most MaxLen characters, or an example
IsInputText(s) ==
    \/ \E n \in 0 .. MaxLen : s \in [1 .. n -> Sigma]
    \/ s \in Examples

\* documents around one string: a bare leaf, a mapping, a nested sequence
DocsOf(s) ==
    {Str(s),
     Dict([k \in {"a", "n"} |-> IF k = "a" THEN Str(s) ELSE Num(1)]),
     List(<<Num(1), List(<<Str(s)>>)>>)}

\* "Hello", "old", "Новый текст", "старый текст", "stale"
Hello == <<72, 101, 108, 108, 111>>
Old == <<111, 108, 100>>
Novyi == <<1053, 1086, 1074, 1099, 1081, 32, 1090, 1077, 1082, 1089, 1090>>
Staryi == <<1089, 1090, 1072, 1088, 1099, 1081, 32, 1090, 1077, 1082, 1089, 1090>>
Stale == <<115, 116, 97, 108, 101>>

SeqsUpTo(S, n) == UNION {[1 .. m -> S] : m \in 0 .. n}
MapsOver(K, S) == UNION {[D -> S] : D \in SUBSET K}

Leaves == {Str(Hello), Str(Old), Str(Novyi), Str(Staryi), Num(1)}

InnerTrees ==
    Leaves
    \cup {Dict(f) : f \in MapsOver({"d"}, {Str(Hello), Num(1)})}
    \cup {List(q) : q \in SeqsUpTo({Str(Hello), Str(Old), Str(Novyi)}, MaxListLen)}

OuterValues ==
    {Str(Hello), Str(Old), Str(Novyi), Num(1),
     Dict([k \in {"d"} |-> Str(Hello)]), Dict([k \in {"d"} |-> Str(Old)]),
     Dict([k \in {"e"} |-> Num(1)]),
     List(<<Str(Hello)>>), List(<<Str(Old), Str(Novyi)>>)}

OuterItems ==
    {Str(Hello), Str(Old), Dict([k \in {"d"} |-> Str(Hello)]), List(<<Str(Old)>>)}

Trees ==
    InnerTrees
    \cup {Dict(f) : f \in MapsOver({"a", "b"}, OuterValues)}
    \cup {List(q) : q \in SeqsUpTo(OuterItems, MaxListLen)}

\* the end-to-end scenario
ExampleArtifact ==
    Dict([k \in {"a", "b", "c"} |->
            IF k = "a" THEN Str(Hello)
            ELSE IF k = "b" THEN Str(Novyi)
            ELSE Dict([d \in {"d"} |-> Num(1)])])

ExampleResource ==
    Dict([k \in {"a", "b", "c", "e"} |->
            IF k = "a" THEN Str(Old)
            ELSE IF k = "b" THEN Str(Staryi)
            ELSE IF k = "c" THEN Dict([d \in {"d"} |-> Num(99)])
            ELSE Str(Stale)])

ExampleMerged ==
    Dict([k \in {"a", "b", "c"} |->
            IF k = "a" THEN Str(Old)
            ELSE IF k = "b" THEN Str(Novyi)
            ELSE Dict([d \in {"d"} |-> Num(1)])])

(***************************************************************************)
(* fix_sentence_case as a state machine: one step per loop iteration       *)
(***************************************************************************)
ScanIdle ==
    /\ text = <<>> /\ i = 0 /\ result = <<>> /\ at_sentence_start = TRUE
    /\ pc = "done" /\ ret = <<>> /\ start_at = <<>> /\ top = -1

FixIdle == data = Num(0) /\ orig_data = Num(0) /\ fix_runs = 0

MergeIdle ==
    /\ artifact = Num(0) /\ resource = Num(0)
    /\ prev_resource = Num(0) /\ runs = 0

ScanInit ==
    /\ IsInputText(text)
    /\ i = 0 /\ result = <<>> /\ at_sentence_start = TRUE
    /\ pc = "call" /\ ret = <<>> /\ start_at = <<>> /\ top = -1
    /\ FixIdle /\ MergeIdle

\* lines 30-31
FastPath ==
    /\ pc = "call"
    /\ ~RussianSearch(text)
    /\ ret' = text
    /\ pc' = "done"
    /\ UNCHANGED <<text, i, result, at_sentence_start, start_at, top>>
    /\ UNCHANGED <<fixVars, mergeVars>>

\* lines 33-36
Enter ==
    /\ pc = "call"
    /\ RussianSearch(text)
    /\ result' = <<>>
    /\ at_sentence_start' = TRUE
    /\ i' = 0
    /\ pc' = "loop"
    /\ UNCHANGED <<text, ret, start_at, top>>
    /\ UNCHANGED <<fixVars, mergeVars>>

Current ==
    [i |-> i, result |-> result, at_sentence_start |-> at_sentence_start,
     top |-> top]

Become(st) ==
    /\ i' = st.i
    /\ result' = st.result
    /\ at_sentence_start' = st.at_sentence_start
    /\ top' = st.top
    /\ start_at' = start_at \o [p \in 1 .. (st.i - i) |-> at_sentence_start]
    /\ UNCHANGED <<text, pc, ret>>
    /\ UNCHANGED <<fixVars, mergeVars>>

InLoop(b) == pc = "loop" /\ i < Len(text) /\ Branch(text, i) = b

FormatPair == InLoop("format") /\ Become(FormatPairStep(text, Current))
Newline == InLoop("newline") /\ Become(NewlineStep(text, Current))
Punct == InLoop("punct") /\ Become(PunctStep(text, Current))
Whitespace == InLoop("blank") /\ Become(WhitespaceStep(text, Current))
Russian == InLoop("russian") /\ Become(RussianStep(text, Current))
Alpha == InLoop("alpha") /\ Become(AlphaStep(text, Current))
Other == InLoop("other") /\ Become(OtherStep(text, Current))

\* line 123
Return ==
    /\ pc = "loop"
    /\ i >= Len(text)
    /\ ret' = result
    /\ pc' = "done"
    /\ UNCHANGED <<text, i, result, at_sentence_start, start_at, top>>
    /\ UNCHANGED <<fixVars, mergeVars>>

ScanNext ==
    \/ FastPath
    \/ Enter
    \/ FormatPair
    \/ Newline
    \/ Punct
    \/ Whitespace
    \/ Russian
    \/ Alpha
    \/ Other
    \/ Return

SpecScan == ScanInit /\ [][ScanNext]_vars

(***************************************************************************)
(* fix_capitalization.main over one JSON file, run repeatedly              *)
(***************************************************************************)
FixInit ==
    /\ \/ \E n \in 0 .. MaxLen : \E s \in [1 .. n -> Sigma] : data \in DocsOf(s)
       \/ \E s \in Examples : data \in DocsOf(s)
    /\ orig_data = data
    /\ fix_runs = 0
    /\ ScanIdle /\ MergeIdle

\* lines 173-179: the file is rewritten when the fixed value differs
FixModified ==
    /\ fix_runs < MaxRuns
    /\ fix_value(data) # data
    /\ data' = fix_value(data)
    /\ fix_runs' = fix_runs + 1
    /\ UNCHANGED orig_data
    /\ UNCHANGED <<scanVars, mergeVars>>

\* lines 180-181
FixUnchanged ==
    /\ fix_runs < MaxRuns
    /\ fix_value(data) = data
    /\ fix_runs' = fix_runs + 1
    /\ UNCHANGED <<data, orig_data>>
    /\ UNCHANGED <<scanVars, mergeVars>>

FixNext == FixModified \/ FixUnchanged

SpecFix == FixInit /\ [][FixNext]_vars

(***************************************************************************)
(* sync_translations.main over one JSON file, run repeatedly               *)
(***************************************************************************)
MergeInit ==
    /\ \/ artifact \in Trees /\ resource \in Trees \cup {Absent}
       \/ artifact = ExampleArtifact /\ resource = ExampleResource
    /\ prev_resource = resource
    /\ runs = 0
    /\ ScanIdle /\ FixIdle

\* lines 103-106 and 111-113
SyncExisting ==
    /\ runs < MaxRuns
    /\ resource # Absent
    /\ resource' = merge_recursive(artifact, resource)
    /\ prev_resource' = resource
    /\ runs' = runs + 1
    /\ UNCHANGED artifact
    /\ UNCHANGED <<scanVars, fixVars>>

\* lines 107-113
SyncNew ==
    /\ runs < MaxRuns
    /\ resource = Absent
    /\ resource' = artifact
    /\ prev_resource' = resource
    /\ runs' = runs + 1
    /\ UNCHANGED artifact
    /\ UNCHANGED <<scanVars, fixVars>>

MergeNext == SyncExisting \/ SyncNew

SpecMerge == MergeInit /\ [][MergeNext]_vars

(***************************************************************************)
(* Vocabulary of the properties (1-based positions of text)                *)
(***************************************************************************)
\* position p is the character copied along with a preceding section sign
RECURSIVE PairSecond(_, _)
PairSecond(s, p) == p > 1 /\ s[p - 1] = 167 /\ ~PairSecond(s, p - 1)

PairFirst(s, p) == s[p] = 167 /\ ~PairSecond(s, p) /\ p < Len(s)

\* position p is consumed on its own, outside a format pair
Plain(s, p) == ~PairSecond(s, p) /\ ~PairFirst(s, p)

\* the claims' "Cyrillic letter" is a letter of the target alphabet, the 66
\* letters matched by [а-яА-ЯёЁ]; other letters of the Cyrillic block count
\* as letters of another script
Cyrillic == (1040 .. 1103) \cup {1025, 1105}
CyrillicUpper == (1040 .. 1071) \cup {1025}
CyrillicLower == (1072 .. 1103) \cup {1105}

\* the same letter in either case
CaseVariants(c) ==
    IF c \in 1040 .. 1071 THEN {c, c + 32}
    ELSE IF c \in 1072 .. 1103 THEN {c, c - 32}
    ELSE IF c \in {1025, 1105} THEN {1025, 1105}
    ELSE {c}

Uppercase(c) == CHOOSE d \in CaseVariants(c) : d \in CyrillicUpper
Lowercase(c) == CHOOSE d \in CaseVariants(c) : d \in CyrillicLower

WhitespaceChars == {9, 10, 11, 12, 13, 28, 29, 30, 31, 32, 133, 160}
PunctuationChars == (33 .. 47) \cup (58 .. 64) \cup (91 .. 96) \cup (123 .. 126)

\* the flag right after position p was consumed
FlagAfter(p) == IF p < Len(result) THEN start_at[p + 1] ELSE at_sentence_start

\* positions of the maximal run of non-whitespace characters around p
WordSpan(s, p) ==
    {q \in 1 .. Len(s) :
        \A r \in (IF q < p THEN q ELSE p) .. (IF q < p THEN p ELSE q) :
            s[r] \notin WhitespaceChars}

\* positions after p up to the next space, tab, newline or the end
WordRest(s, p) ==
    {q \in (p + 1) .. Len(s) : \A r \in (p + 1) .. q : s[r] \notin {32, 9, 10}}

\* a '.', '!' or '?' consumed on its own and followed by a space or tab
PunctBeforeBlank(p) ==
    /\ Plain(text, p)
    /\ text[p] \in {46, 33, 63}
    /\ p < Len(text)
    /\ text[p + 1] \in {32, 9}

\* the look-back condition as the claim words it
LoneLetterWide(p) ==
    /\ p >= 2
    /\ text[p - 1] \in Cyrillic
    /\ (p = 2 \/ text[p - 2] \in WhitespaceChars \cup PunctuationChars)

\* the look-back condition with the five characters the code tests
LoneLetterNarrow(p) ==
    /\ p >= 2
    /\ text[p - 1] \in Cyrillic
    /\ (p = 2 \/ text[p - 2] \in {32, 9, 46, 33, 63})

Finished == pc = "done" /\ \E p \in 1 .. Len(text) : text[p] \in Cyrillic

(***************************************************************************)
(* C1                                                                      *)
(***************************************************************************)
\* C1: normalisation is idempotent: once a document (a string leaf or a
\* nested document) has been fixed, fixing it again returns the same value.
C1_Idempotent ==
    fix_runs >= 1 =>
        /\ fix_value(data) = data
        /\ data.t = "str" => fix_sentence_case(data.v) = data.v

\* a nested document that the first run changed and a second run has seen
C1_Witness ==
    /\ fix_runs = 2
    /\ data # orig_data
    /\ data.t = "dict"

(***************************************************************************)
(* C2                                                                      *)
(***************************************************************************)
RECURSIVE SameShape(_, _)
SameShape(a, m) ==
    IF a.t = "dict"
    THEN /\ m.t = "dict"
         /\ Keys(m) = Keys(a)
         /\ \A k \in Keys(a) : SameShape(a.v[k], m.v[k])
    ELSE IF a.t = "list"
    THEN /\ m.t = "list"
         /\ Len(m.v) = Len(a.v)
         /\ \A p \in 1 .. Len(a.v) : SameShape(a.v[p], m.v[p])
    ELSE m.t \notin {"dict", "list"}

\* C2: the merged tree has exactly the shape of the incoming tree at every
\* level: same key sets, same sequence lengths, leaves where it has leaves.
C2_ShapeOfIncoming == runs >= 1 => SameShape(artifact, resource)

\* a sync where the existing tree had a stale key and a longer nested list
C2_Witness ==
    /\ runs = 1
    /\ artifact.t = "dict" /\ prev_resource.t = "dict"
    /\ Keys(prev_resource) \ Keys(artifact) # {}
    /\ \E k \in Keys(artifact) \cap Keys(prev_resource) :
          /\ artifact.v[k].t = "list" /\ prev_resource.v[k].t = "list"
          /\ Len(prev_resource.v[k].v) > Len(artifact.v[k].v)

(***************************************************************************)
(* C3                                                                      *)
(***************************************************************************)
ContainsCyrillic(s) == \E p \in 1 .. Len(s) : s[p] \in Cyrillic

LeafPolicy(a, r) ==
    IF ContainsCyrillic(a.v) THEN a
    ELSE IF r.t = "str" THEN r
    ELSE a

\* the policy at every path where merge_recursive meets an incoming string
RECURSIVE PolicyAtEveryPath(_, _, _)
PolicyAtEveryPath(a, r, m) ==
    IF a.t = "str" THEN m = LeafPolicy(a, r)
    ELSE IF a.t = "dict" /\ r.t = "dict"
    THEN \A k \in Keys(a) \cap Keys(r) :
            k \in Keys(m) /\ PolicyAtEveryPath(a.v[k], r.v[k], m.v[k])
    ELSE IF a.t = "list" /\ r.t = "list"
    THEN \A p \in 1 .. Len(a.v) :
            p <= Len(r.v) =>
                p <= Len(m.v) /\ PolicyAtEveryPath(a.v[p], r.v[p], m.v[p])
    ELSE TRUE

\* C3: an incoming string with a Cyrillic letter wins; otherwise an existing
\* string is kept; otherwise the incoming string is taken.  The end-to-end
\* scenario merges to {"a": "old", "b": "Новый текст", "c": {"d": 1}}.
C3_LeafPolicy ==
    (runs = 1 /\ prev_resource # Absent) =>
        /\ PolicyAtEveryPath(artifact, prev_resource, resource)
        /\ (artifact = ExampleArtifact /\ prev_resource = ExampleResource)
              => resource = ExampleMerged

\* the end-to-end scenario has been merged
C3_Witness ==
    /\ runs = 1
    /\ artifact = ExampleArtifact
    /\ prev_resource = ExampleResource
    /\ resource.v["a"] = Str(Old)

(***************************************************************************)
(* C4                                                                      *)
(***************************************************************************)
\* C4 as stated: fix_sentence_case("Т. е. Пример.") returns its input.
C4_AsStated == (pc = "done" /\ text = TextAbbrev) => ret = TextAbbrev

\* C4: fix_sentence_case("Т. е. Пример.") does not capitalize the letter
\* after "Т." and, no sentence boundary having been declared, lowers the
\* capital of "Пример": the output is "Т. е. пример.".
C4_Abbreviation ==
    (pc = "done" /\ text = TextAbbrev) =>
        /\ ret[4] = 1077
        /\ ret = TextAbbrevFixed

C4_Witness == pc = "done" /\ text = TextAbbrev /\ ret # text

(***************************************************************************)
(* C5                                                                      *)
(***************************************************************************)
\* an uppercase Cyrillic letter reached while not at sentence start
MidSentenceUpper(p) ==
    /\ Plain(text, p)
    /\ text[p] \in CyrillicUpper
    /\ ~start_at[p]

\* C5 as stated: such a letter is lowered exactly when its whole word span,
\* before and after it, holds a lowercase Cyrillic letter.
C5_AsStated ==
    \A p \in 1 .. Len(result) :
        MidSentenceUpper(p) =>
            IF \E q \in WordSpan(text, p) : text[q] \in CyrillicLower
            THEN result[p] = Lowercase(text[p])
            ELSE result[p] = text[p]

\* C5: such a letter is lowered exactly when a lowercase Cyrillic letter
\* follows it before the next space, tab, newline or the end of the string;
\* otherwise it is emitted unchanged.  "МЭ готов" stays, "Изготовь Зарядник"
\* becomes "Изготовь зарядник".
C5_ForwardScan ==
    /\ \A p \in 1 .. Len(result) :
          MidSentenceUpper(p) =>
              IF \E q \in WordRest(text, p) : text[q] \in CyrillicLower
              THEN result[p] = Lowercase(text[p])
              ELSE result[p] = text[p]
    /\ (pc = "done" /\ text = TextAllCaps) => ret = TextAllCaps
    /\ (pc = "done" /\ text = TextTitle) => ret = TextTitleFixed

\* a capital kept although a lowercase letter precedes it in its word
C5_Witness ==
    /\ pc = "done"
    /\ \E p \in 1 .. Len(result) :
          /\ MidSentenceUpper(p)
          /\ \E q \in WordSpan(text, p) : q < p /\ text[q] \in CyrillicLower
          /\ \A q \in WordRest(text, p) : text[q] \notin CyrillicLower
          /\ ret[p] = text[p]

(***************************************************************************)
(* C6                                                                      *)
(***************************************************************************)
\* C6: the output has the length of the input and differs from it only in
\* the case of Cyrillic letters outside the second place of a format pair;
\* a string without a Cyrillic letter is returned unchanged.
C6_OnlyCyrillicCase ==
    pc = "done" =>
        /\ Len(ret) = Len(text)
        /\ \A p \in 1 .. Len(text) :
              \/ ret[p] = text[p]
              \/ /\ text[p] \in Cyrillic
                 /\ ~PairSecond(text, p)
                 /\ ret[p] \in CaseVariants(text[p])
        /\ ~ContainsCyrillic(text) => ret = text

\* a changed string holding a Cyrillic letter inside a format pair
C6_Witness ==
    /\ pc = "done"
    /\ ret # text
    /\ \E p \in 1 .. Len(text) : PairSecond(text, p) /\ text[p] \in Cyrillic

(***************************************************************************)
(* C7                                                                      *)
(***************************************************************************)
C7_Iteration ==
    (pc = "loop" /\ i < Len(text)) =>
        /\ pc' = "loop"
        /\ i' \in {i + 1, i + 2}
        /\ i' <= Len(text)
        /\ i' = i + 2 => text[i + 1] = 167
        /\ top' >= i /\ top' < Len(text)
        /\ Len(result') = i'
        /\ (text[i + 1] = 167 /\ i + 1 = Len(text)) =>
              /\ i' = i + 1
              /\ result' = Append(result, 167)
              /\ at_sentence_start' = at_sentence_start

\* C7: every loop iteration advances the index by 1, or by 2 for a complete
\* format pair, no read goes past the end of the string, the call can always
\* take its next step until it has returned, and a trailing section sign is
\* copied alone without changing the sentence state.
C7_Total ==
    /\ [](pc = "loop" => (i <= Len(text) /\ top < Len(text)))
    /\ [](pc = "done" \/ ENABLED ScanNext)
    /\ [][C7_Iteration]_vars

\* a scan that ended on a lone trailing section sign
C7_Witness ==
    /\ Finished
    /\ text[Len(text)] = 167
    /\ ~PairSecond(text, Len(text))
    /\ Len(ret) = Len(text)
    /\ ret[Len(ret)] = 167

(***************************************************************************)
(* C8                                                                      *)
(***************************************************************************)
\* C8 as stated: after punctuation followed by a space or tab the flag is
\* left alone exactly when a Cyrillic letter precedes the punctuation and
\* is itself preceded by any whitespace, any punctuation or nothing.
C8_AsStated ==
    \A p \in 1 .. Len(result) :
        PunctBeforeBlank(p) =>
            IF LoneLetterWide(p)
            THEN FlagAfter(p) = start_at[p]
            ELSE FlagAfter(p) = TRUE

\* C8: after '.', '!' or '?' (outside a format pair) followed by a space or
\* tab the flag is left alone exactly when the character before the
\* punctuation is a Cyrillic letter that is itself preceded by a space,
\* a tab, '.', '!', '?' or the start of the string; otherwise it is set.
C8_LookBack ==
    \A p \in 1 .. Len(result) :
        PunctBeforeBlank(p) =>
            IF LoneLetterNarrow(p)
            THEN FlagAfter(p) = start_at[p]
            ELSE FlagAfter(p) = TRUE

\* a lone letter after a newline or '(' whose full stop declared a boundary,
\* and a lone letter after a space whose full stop did not
C8_Witness ==
    /\ pc = "done"
    /\ \E p \in 1 .. Len(result) :
          /\ PunctBeforeBlank(p)
          /\ LoneLetterWide(p) /\ ~LoneLetterNarrow(p)
          /\ ~start_at[p] /\ FlagAfter(p)

(***************************************************************************)
(* C9                                                                      *)
(***************************************************************************)
\* a declared sentence boundary
Boundary(p) == PunctBeforeBlank(p) /\ ~LoneLetterNarrow(p)

Reset(p) == Plain(text, p) /\ (text[p] = 10 \/ Boundary(p))

Letter(p) == Plain(text, p) /\ isalpha(text[p])

\* no letter was consumed since the last newline, boundary or the start
NoLetterSince(p) ==
    \A q \in 1 .. (p - 1) : Letter(q) => \E r \in (q + 1) .. (p - 1) : Reset(r)

FlagEvolution(p) ==
    IF PairFirst(text, p) THEN FlagAfter(p + 1) = start_at[p]
    ELSE IF PairSecond(text, p) THEN TRUE
    ELSE IF text[p] = 10 THEN FlagAfter(p) = TRUE
    ELSE IF Boundary(p) THEN FlagAfter(p) = TRUE
    ELSE IF isalpha(text[p]) THEN FlagAfter(p) = FALSE
    ELSE FlagAfter(p) = start_at[p]

\* C9: the flag starts true, newlines and declared boundaries set it, letters
\* of any script clear it, everything else (blanks, digits, symbols, format
\* pairs, punctuation without a following blank) leaves it; so a Cyrillic
\* letter is forced to uppercase exactly when no letter was consumed since
\* the last newline, boundary or start.  "привет. мир" gives "Привет. Мир".
C9_SentenceState ==
    /\ (pc = "loop" /\ i = 0) => at_sentence_start
    /\ \A p \in 1 .. Len(result) :
          /\ FlagEvolution(p)
          /\ (Plain(text, p) /\ text[p] \in Cyrillic) =>
                /\ start_at[p] <=> NoLetterSince(p)
                /\ start_at[p] => result[p] = Uppercase(text[p])
                /\ (text[p] \in CyrillicLower /\ ~start_at[p]) => result[p] = text[p]
    /\ (pc = "done" /\ text = TextPrivet) => ret = TextPrivetFixed

\* a letter of another script (the Ukrainian ghe) cleared the flag and a
\* later newline or boundary set it again
C9_Witness ==
    /\ pc = "done"
    /\ \E p \in 1 .. Len(result), q \in 1 .. Len(result) :
          /\ q < p
          /\ Plain(text, q) /\ text[q] = 1168 /\ FlagAfter(q) = FALSE
          /\ Plain(text, p) /\ text[p] \in CyrillicLower
          /\ start_at[p] /\ ret[p] = Uppercase(text[p])

(***************************************************************************)
(* C10                                                                     *)
(***************************************************************************)
\* C10: a second sync of the same incoming tree against the previous output
\* changes nothing, and merging a tree with itself returns it.
C10_Resync ==
    /\ runs >= 2 => resource = prev_resource
    /\ runs >= 1 => merge_recursive(artifact, resource) = resource
    /\ merge_recursive(artifact, artifact) = artifact

\* a second sync, of a tree whose merge kept values of the existing tree
C10_Witness ==
    /\ runs = 2
    /\ resource # artifact
    /\ artifact.t = "dict" /\ resource.t = "dict"
    /\ \E k \in Keys(artifact) : artifact.v[k] # resource.v[k]

====
